---- MODULE Spec2Model ----
(***************************************************************************)
(* A model of app/pdf_engine.py (PdfEngine.merge_pdfs, split_pdf,          *)
(* pdf_to_docx) over an abstract file system and an abstract document      *)
(* engine (PyMuPDF's open / insert_pdf / save / close and pdf2docx's       *)
(* Converter).  A document is the sequence of its pages; a page is an      *)
(* integer naming its content.  The merge page of app/ui.py (MergePage,    *)
(* PDFListWidget) is modelled on top of it: pdf_list is the list widget's  *)
(* paths in order, ui the handler that has just run.                       *)
(***************************************************************************)
EXTENDS Integers, Sequences, FiniteSets, TLC

VARIABLES fs, dirs, handles, last, pdf_list, ui

vars == <<fs, dirs, handles, last, pdf_list, ui>>

-----------------------------------------------------------------------------
(* Bounds of the model.                                                    *)

\* the longest document the model lets an operation write
MaxPages == 4
\* the longest list of input files handed to merge_pdfs
MaxFiles == 2
\* the most document handles the model lets the process hold open
MaxHandles == 1

-----------------------------------------------------------------------------
(* The file system.                                                        *)

\* source paths; "O" is also the output path in the existing directory
SrcPaths == {"A", "B", "O"}
\* output paths: "O" lies in an existing directory, "X" in a missing one
OutPaths == {"O", "X"}
Paths == SrcPaths \cup OutPaths

NoFile == [kind |-> "none", pages |-> <<>>]
Junk == [kind |-> "junk", pages |-> <<>>]
Pdf(pages) == [kind |-> "pdf", pages |-> pages]
Docx(pages) == [kind |-> "docx", pages |-> pages]

\* os.path.dirname(os.path.abspath(path)) or "."
output_dir(path) == IF path = "X" THEN "missing_dir" ELSE "work_dir"

\* os.path.exists(path)
exists(fsys, path) == fsys[path].kind # "none"

\* os.path.isdir(d)
isdir(ds, d) == d \in ds

-----------------------------------------------------------------------------
(* Exceptions.  str(exc) is prefix + text, with the path and the numbers   *)
(* the f-string puts in it; cause is the type of the exception wrapped.    *)

NoExc == [type |-> "none", prefix |-> "", text |-> "", path |-> "",
          nums |-> <<>>, cause |-> "none"]

Raise(type, text, path, nums) ==
    [type |-> type, prefix |-> "", text |-> text, path |-> path,
     nums |-> nums, cause |-> "none"]

\* an error of the engine's own type (fitz / pdf2docx)
EngineError(text, path) == Raise("EngineError", text, path, <<>>)

\* raise RuntimeError(f"<prefix>{exc}") from exc
WrapRuntime(prefix, exc) ==
    [exc EXCEPT !.type = "RuntimeError", !.prefix = prefix, !.cause = exc.type]

-----------------------------------------------------------------------------
(* I/O events, in the order the operation performs them.                   *)

Ev(ev, path) == [ev |-> ev, path |-> path]

\* the outcomes of the engine's fallible steps: all succeed, insert_pdf
\* raises, save/convert raises before touching the target, save/convert
\* raises after it has begun writing the target
EngineOutcomes == {"ok", "insert_fail", "fail_clean", "fail_partial"}


\* the handles still open after the events of io: opened and not closed
RECURSIVE OpenCount(_)
OpenCount(io) ==
    IF io = <<>> THEN 0
    ELSE LET e == io[Len(io)].ev
             d == IF e \in {"new", "open", "conv_open"} THEN 1
                  ELSE IF e \in {"close_new", "close", "conv_close"} THEN -1
                  ELSE 0
         IN  d + OpenCount(SubSeq(io, 1, Len(io) - 1))

-----------------------------------------------------------------------------
(* The engine.                                                             *)

\* a save that adds the pages to the document already at path
save_append(fsys, path, pages, eng) ==
    IF eng \in {"fail_clean", "fail_partial"}
    THEN [exc |-> EngineError("save failed", path), fs |-> fsys,
          io |-> <<Ev("save_err", path)>>]
    ELSE [exc |-> NoExc,
          fs |-> [fsys EXCEPT ![path] = Pdf(fsys[path].pages \o pages)],
          io |-> <<Ev("save", path)>>]

\* doc.save(path): writes the whole document, or raises; a save that fails
\* part-way leaves what it had written of the file
save(fsys, path, pages, eng) ==
    IF eng = "fail_clean"
    THEN [exc |-> EngineError("save failed", path), fs |-> fsys,
          io |-> <<Ev("save_err", path)>>]
    ELSE IF eng = "fail_partial"
    THEN [exc |-> EngineError("save failed", path),
          fs |-> [fsys EXCEPT ![path] = Junk],
          io |-> <<Ev("save_err", path)>>]
    ELSE [exc |-> NoExc, fs |-> [fsys EXCEPT ![path] = Pdf(pages)],
          io |-> <<Ev("save", path)>>]

\* the pages doc.insert_pdf(src, from_page, to_page) appends: the source's
\* pages from_page..to_page, 0-based and inclusive, clamped to the source
insert_pdf(src, from_page, to_page) ==
    LET n  == Len(src)
        f0 == IF from_page < 0 THEN 0 ELSE from_page
        fp == IF f0 > n - 1 THEN n - 1 ELSE f0
        tp == IF to_page < 0 \/ to_page > n - 1 THEN n - 1 ELSE to_page
    IN  IF n = 0 THEN <<>>
        ELSE IF fp <= tp THEN [k \in 1..(tp - fp + 1) |-> src[fp + k]]
        ELSE [k \in 1..(fp - tp + 1) |-> src[fp + 2 - k]]

-----------------------------------------------------------------------------
(* PdfEngine.merge_pdfs                                                    *)

\* a merge that puts each source's pages in front of those collected so far
append_pages_front(merged, src) == insert_pdf(src, -1, -1) \o merged

\* merged.insert_pdf(src): all pages of src, after the pages collected so far
append_pages(merged, src) == merged \o insert_pdf(src, -1, -1)

\* the for loop of merge_pdfs from input_files[i] on: the exception that
\* ended it (or none), the pages collected and the events performed
RECURSIVE merge_loop(_, _, _, _, _, _)
merge_loop(fsys, input_files, i, merged, io, eng) ==
    IF i > Len(input_files) THEN [exc |-> NoExc, merged |-> merged, io |-> io]
    ELSE LET path == input_files[i]
             io1  == Append(io, Ev("exists", path))
         IN  IF ~exists(fsys, path)
             THEN [exc |-> Raise("FileNotFoundError", "File not found: ", path, <<>>),
                   merged |-> merged, io |-> io1]
             ELSE IF fsys[path].kind # "pdf"
             THEN [exc |-> EngineError("cannot open document", path),
                   merged |-> merged, io |-> Append(io1, Ev("open_err", path))]
             ELSE IF eng = "insert_fail"
             THEN [exc |-> EngineError("insert failed", path), merged |-> merged,
                   io |-> io1 \o <<Ev("open", path), Ev("insert_err", path),
                                   Ev("close", path)>>]
             ELSE merge_loop(fsys, input_files, i + 1,
                             append_pages(merged, fsys[path].pages),
                             io1 \o <<Ev("open", path), Ev("insert", path),
                                      Ev("close", path)>>, eng)

\* the try block of merge_pdfs: the loop, the output directory check, save
merge_try(fsys, ds, input_files, output_path, eng) ==
    LET l == merge_loop(fsys, input_files, 1, <<>>, <<>>, eng)
        d == output_dir(output_path)
    IN  IF l.exc.type # "none" THEN [exc |-> l.exc, io |-> l.io, fs |-> fsys]
        ELSE IF ~isdir(ds, d)
        THEN [exc |-> Raise("FileNotFoundError",
                            "Output directory does not exist: ", d, <<>>),
              io |-> Append(l.io, Ev("isdir", d)), fs |-> fsys]
        ELSE LET s == save(fsys, output_path, l.merged, eng)
             IN  [exc |-> s.exc, io |-> Append(l.io, Ev("isdir", d)) \o s.io,
                  fs |-> s.fs]

\* an except clause that lets the exception through as it is
merge_except_reraise(exc) == exc

\* except Exception as exc: raise RuntimeError(...) from exc
merge_except(exc) ==
    IF exc.type = "none" THEN exc ELSE WrapRuntime("Failed to merge PDFs: ", exc)

\* merge_pdfs without the check of an empty input list
merge_pdfs_unguarded(fsys, ds, input_files, output_path, eng) ==
    LET t == merge_try(fsys, ds, input_files, output_path, eng)
    IN  [exc |-> merge_except(t.exc),
         io |-> <<Ev("new", "")>> \o t.io \o <<Ev("close_new", "")>>,
         fs |-> t.fs]

\* merge_pdfs(input_files, output_path): what it raises (or none), the
\* events it performed and the file system it leaves
merge_pdfs(fsys, ds, input_files, output_path, eng) ==
    IF input_files = <<>>
    THEN [exc |-> Raise("ValueError", "there is no input files provided to merge.",
                        "", <<>>),
          io |-> <<>>, fs |-> fsys]
    ELSE LET t == merge_try(fsys, ds, input_files, output_path, eng)
         IN  [exc |-> merge_except(t.exc),
              io |-> <<Ev("new", "")>> \o t.io \o <<Ev("close_new", "")>>,
              fs |-> t.fs]

-----------------------------------------------------------------------------
(* PdfEngine.split_pdf                                                     *)

\* the page range validation of split_pdf: the exception the first failing
\* check raises, or none
validate_page_range(start_page, end_page, total_pages) ==
    IF start_page < 1 \/ end_page < 1
    THEN Raise("ValueError", "Page numbers must be >= 1.", "", <<>>)
    ELSE IF start_page > end_page
    THEN Raise("ValueError", "Start page cannot be greater than end page.", "", <<>>)
    ELSE IF end_page > total_pages
    THEN Raise("ValueError", "End page exceeds document page count.", "",
               <<end_page, total_pages>>)
    ELSE NoExc

\* a split that passes the 1-based page numbers to the engine unconverted
split_pages_unconverted(src, start_page, end_page) ==
    insert_pdf(src, start_page, end_page)

\* the pages split_pdf asks the engine to copy into the new document
split_pages(src, start_page, end_page) ==
    insert_pdf(src, start_page - 1, end_page - 1)

\* new_doc = fitz.open(); try: insert_pdf, directory check, save;
\* finally: new_doc.close()
split_new_doc(fsys, ds, input_file, start_page, end_page, output_path, eng) ==
    LET d == output_dir(output_path)
        r == IF eng = "insert_fail"
             THEN [exc |-> EngineError("insert failed", input_file), fs |-> fsys,
                   io |-> <<Ev("insert_err", input_file)>>]
             ELSE IF ~isdir(ds, d)
             THEN [exc |-> Raise("FileNotFoundError",
                                 "Output directory does not exist: ", d, <<>>),
                   fs |-> fsys,
                   io |-> <<Ev("insert", input_file), Ev("isdir", d)>>]
             ELSE LET s == save(fsys, output_path,
                                split_pages(fsys[input_file].pages,
                                            start_page, end_page), eng)
                  IN  [exc |-> s.exc, fs |-> s.fs,
                       io |-> <<Ev("insert", input_file), Ev("isdir", d)>> \o s.io]
    IN  [exc |-> r.exc, fs |-> r.fs,
         io |-> <<Ev("new", "")>> \o r.io \o <<Ev("close_new", "")>>]

\* the try block of split_pdf: with fitz.open(input_file) as src: ...
split_try(fsys, ds, input_file, start_page, end_page, output_path, eng) ==
    IF fsys[input_file].kind # "pdf"
    THEN [exc |-> EngineError("cannot open document", input_file), fs |-> fsys,
          io |-> <<Ev("open_err", input_file)>>]
    ELSE LET total_pages == Len(fsys[input_file].pages)
             v == validate_page_range(start_page, end_page, total_pages)
         IN  IF v.type # "none"
             THEN [exc |-> v, fs |-> fsys,
                   io |-> <<Ev("open", input_file), Ev("close", input_file)>>]
             ELSE LET n == split_new_doc(fsys, ds, input_file, start_page,
                                         end_page, output_path, eng)
                  IN  [exc |-> n.exc, fs |-> n.fs,
                       io |-> <<Ev("open", input_file)>> \o n.io
                                  \o <<Ev("close", input_file)>>]

\* except Exception as exc: raise RuntimeError(...) from exc
split_except(exc) ==
    IF exc.type = "none" THEN exc ELSE WrapRuntime("Failed to split PDF: ", exc)

split_pdf(fsys, ds, input_file, start_page, end_page, output_path, eng) ==
    IF ~exists(fsys, input_file)
    THEN [exc |-> Raise("FileNotFoundError", "Source file not found: ",
                        input_file, <<>>),
          io |-> <<Ev("exists", input_file)>>, fs |-> fsys]
    ELSE LET t == split_try(fsys, ds, input_file, start_page, end_page,
                            output_path, eng)
         IN  [exc |-> split_except(t.exc),
              io |-> <<Ev("exists", input_file)>> \o t.io, fs |-> t.fs]

-----------------------------------------------------------------------------
(* PdfEngine.pdf_to_docx                                                   *)

\* cv.convert(output_path): writes the whole DOCX, or raises, leaving the
\* target untouched or partly written
convert(fsys, input_file, output_path, eng) ==
    IF eng = "fail_clean"
    THEN [exc |-> EngineError("conversion failed", output_path), fs |-> fsys,
          io |-> <<Ev("convert_err", output_path)>>]
    ELSE IF eng = "fail_partial"
    THEN [exc |-> EngineError("conversion failed", output_path),
          fs |-> [fsys EXCEPT ![output_path] = Junk],
          io |-> <<Ev("convert_err", output_path)>>]
    ELSE [exc |-> NoExc,
          fs |-> [fsys EXCEPT ![output_path] = Docx(fsys[input_file].pages)],
          io |-> <<Ev("convert", output_path)>>]

\* cv = Converter(input_file); cv.convert(output_path); cv.close()
convert_steps(fsys, input_file, output_path, eng) ==
    IF fsys[input_file].kind # "pdf"
    THEN [exc |-> EngineError("cannot open document", input_file), fs |-> fsys,
          io |-> <<Ev("open_err", input_file)>>]
    ELSE LET c == convert(fsys, input_file, output_path, eng)
         IN  IF c.exc.type # "none"
             THEN [exc |-> c.exc, fs |-> c.fs,
                   io |-> <<Ev("conv_open", input_file)>> \o c.io]
             ELSE [exc |-> c.exc, fs |-> c.fs,
                   io |-> <<Ev("conv_open", input_file)>> \o c.io
                              \o <<Ev("conv_close", input_file)>>]

\* the try block of pdf_to_docx: the output directory check, the conversion
convert_try(fsys, ds, input_file, output_path, eng) ==
    LET d == output_dir(output_path)
    IN  IF ~isdir(ds, d)
        THEN [exc |-> Raise("FileNotFoundError",
                            "Output directory does not exist: ", d, <<>>),
              fs |-> fsys, io |-> <<Ev("isdir", d)>>]
        ELSE LET c == convert_steps(fsys, input_file, output_path, eng)
             IN  [exc |-> c.exc, fs |-> c.fs, io |-> <<Ev("isdir", d)>> \o c.io]

\* except Exception as exc: raise RuntimeError(...) from exc
convert_except(exc) ==
    IF exc.type = "none" THEN exc
    ELSE WrapRuntime("Failed to convert PDF to DOCX: ", exc)

pdf_to_docx(fsys, ds, input_file, output_path, eng) ==
    IF ~exists(fsys, input_file)
    THEN [exc |-> Raise("FileNotFoundError", "Source file not found: ",
                        input_file, <<>>),
          io |-> <<Ev("exists", input_file)>>, fs |-> fsys]
    ELSE LET t == convert_try(fsys, ds, input_file, output_path, eng)
         IN  [exc |-> convert_except(t.exc),
              io |-> <<Ev("exists", input_file)>> \o t.io, fs |-> t.fs]

-----------------------------------------------------------------------------
(* The state machine: a single-threaded caller invoking the three          *)
(* operations in any order on one file system.  last is the call that has  *)
(* just returned: its arguments, what it raised and the events it          *)
(* performed; the caller discards it before it makes the next call.        *)

\* the lists of input files a caller may pass to merge_pdfs
FileSets == UNION {[1..n -> SrcPaths] : n \in 0..MaxFiles}

\* the page numbers a caller may pass to split_pdf
PageArgs == 0..MaxPages

\* the engine's outcomes that apply to a call: engine failures are drawn
\* only for a call that reaches the engine's insert, save or convert
Outcomes(exc, all) == IF exc.type = "none" THEN all ELSE {"ok"}

\* no handler of the merge page has run
NoUi == [action |-> "none", dialog |-> "none", out |-> ""]

NoCall ==
    [op |-> "none", files |-> <<>>, src |-> "", start |-> 0, end |-> 0,
     out |-> "", exc |-> NoExc, io |-> <<>>]

Call(op, files, src, start, end, out, r) ==
    [op |-> op, files |-> files, src |-> src, start |-> start, end |-> end,
     out |-> out, exc |-> r.exc, io |-> r.io]

\* the model follows a call only while documents and open handles stay
\* within the bounds
Within(r) ==
    /\ \A p \in Paths : Len(r.fs[p].pages) <= MaxPages
    /\ handles + OpenCount(r.io) <= MaxHandles

Init ==
    /\ fs \in {[p \in Paths |-> IF p = "A" THEN a ELSE IF p = "B" THEN b ELSE NoFile] :
                  a \in {Pdf(<<1, 2>>), Junk}, b \in {Pdf(<<3>>), NoFile}}
    /\ dirs = {"work_dir"}
    /\ handles = 0
    /\ last = NoCall
    /\ pdf_list = <<>>
    /\ ui = NoUi

Merge ==
    /\ last.op = "none"
    /\ \E input_files \in FileSets, output_path \in OutPaths :
         \E eng \in Outcomes(merge_pdfs(fs, dirs, input_files, output_path, "ok").exc,
                             EngineOutcomes) :
            LET r == merge_pdfs(fs, dirs, input_files, output_path, eng)
            IN  /\ Within(r)
                /\ fs' = r.fs
                /\ handles' = handles + OpenCount(r.io)
                /\ last' = Call("merge", input_files, "", 0, 0, output_path, r)
                /\ UNCHANGED <<dirs, pdf_list, ui>>

Split ==
    /\ last.op = "none"
    /\ \E input_file \in SrcPaths, start_page \in PageArgs, end_page \in PageArgs,
          output_path \in OutPaths :
         \E eng \in Outcomes(split_pdf(fs, dirs, input_file, start_page, end_page,
                                       output_path, "ok").exc, EngineOutcomes) :
            LET r == split_pdf(fs, dirs, input_file, start_page, end_page,
                               output_path, eng)
            IN  /\ Within(r)
                /\ fs' = r.fs
                /\ handles' = handles + OpenCount(r.io)
                /\ last' = Call("split", <<>>, input_file, start_page, end_page,
                                output_path, r)
                /\ UNCHANGED <<dirs, pdf_list, ui>>

Convert ==
    /\ last.op = "none"
    /\ \E input_file \in SrcPaths, output_path \in OutPaths :
         \E eng \in Outcomes(pdf_to_docx(fs, dirs, input_file, output_path, "ok").exc,
                             EngineOutcomes \ {"insert_fail"}) :
            LET r == pdf_to_docx(fs, dirs, input_file, output_path, eng)
            IN  /\ Within(r)
                /\ fs' = r.fs
                /\ handles' = handles + OpenCount(r.io)
                /\ last' = Call("convert", <<>>, input_file, 0, 0, output_path, r)
                /\ UNCHANGED <<dirs, pdf_list, ui>>

\* the caller has taken the outcome; the call's values are discarded
Discard ==
    /\ last.op # "none"
    /\ last' = NoCall
    /\ UNCHANGED <<fs, dirs, handles, pdf_list, ui>>

Next == Merge \/ Split \/ Convert \/ Discard

Spec == Init /\ [][Next]_vars

-----------------------------------------------------------------------------
(* The outcome a call's caller sees, in the terms of the error taxonomy:   *)
(* the kind is read off the type of the exception that left the operation  *)
(* and, for a type raised at several places, the message it was raised     *)
(* with.  An exception of any other type is the engine's own ("Native").   *)

KindOf(exc) ==
    CASE exc.type = "none" -> "Success"
      [] exc.type = "RuntimeError" /\ exc.prefix = "Failed to merge PDFs: " ->
            "MergeFailed"
      [] exc.type = "RuntimeError" /\ exc.prefix = "Failed to split PDF: " ->
            "SplitFailed"
      [] exc.type = "RuntimeError" /\ exc.prefix = "Failed to convert PDF to DOCX: " ->
            "ConvertFailed"
      [] exc.type = "ValueError"
            /\ exc.text = "there is no input files provided to merge." ->
            "EmptyInput"
      [] exc.type = "ValueError"
            /\ exc.text \in {"Page numbers must be >= 1.",
                             "Start page cannot be greater than end page."} ->
            "InvalidRange"
      [] exc.type = "ValueError"
            /\ exc.text = "End page exceeds document page count." ->
            "RangeExceedsDocument"
      [] exc.type = "FileNotFoundError"
            /\ exc.text \in {"File not found: ", "Source file not found: "} ->
            "FileNotFound"
      [] exc.type = "FileNotFoundError"
            /\ exc.text = "Output directory does not exist: " ->
            "DirectoryNotFound"
      [] OTHER -> "Native"

\* a call has returned and its outcome is with the caller
Called(c) == c.op # "none"

\* the paths of a list of input files
Members(files) == {files[i] : i \in 1..Len(files)}

\* the first path of files that names no existing file
FirstMissing(fsys, files) ==
    files[CHOOSE i \in 1..Len(files) :
             /\ ~exists(fsys, files[i])
             /\ \A j \in 1..(i - 1) : exists(fsys, files[j])]

-----------------------------------------------------------------------------
(* C1 .. C3                                                                *)

\* C1: merge_pdfs of an empty list of input files fails with EmptyInput and
\* performs no I/O: no document is opened, no existence query is made, and
\* the file system (the output path included) and the directories are as
\* they were, whatever the output path is.
C1_EmptyMergeNoIO ==
    [][(last'.op = "merge" /\ last'.files = <<>>)
         => /\ KindOf(last'.exc) = "EmptyInput"
            /\ last'.io = <<>>
            /\ fs' = fs
            /\ dirs' = dirs
            /\ handles' = handles]_vars

\* an empty merge has returned, for the output path in the missing directory
C1_Witness ==
    last.op = "merge" /\ last.files = <<>> /\ last.out = "X"
        /\ last.exc.type = "ValueError"

\* C2 (as claimed): a merge of a non-empty list holding a path that names no
\* existing file fails with FileNotFound naming the first such path, and
\* leaves the file system as it was.
C2_MissingInputIsFileNotFound ==
    [][(last'.op = "merge" /\ last'.files # <<>>
          /\ \E p \in Members(last'.files) : ~exists(fs, p))
         => /\ KindOf(last'.exc) = "FileNotFound"
            /\ last'.exc.path = FirstMissing(fs, last'.files)
            /\ fs' = fs]_vars

\* C3 (as claimed): for a source of total pages, split_pdf reports the first
\* applicable failure of the range in the fixed order: InvalidRange if
\* start < 1 or end < 1, else InvalidRange if start > end, else
\* RangeExceedsDocument if end > total, else neither.
C3_RangeKindsInOrder ==
    [][(last'.op = "split" /\ fs[last'.src].kind = "pdf")
         => LET total == Len(fs[last'.src].pages)
                k == KindOf(last'.exc)
            IN  IF last'.start < 1 \/ last'.end < 1 THEN k = "InvalidRange"
                ELSE IF last'.start > last'.end THEN k = "InvalidRange"
                ELSE IF last'.end > total THEN k = "RangeExceedsDocument"
                ELSE k \notin {"InvalidRange", "RangeExceedsDocument"}]_vars

\* what the code does for C3: the range check raises its three errors in
\* the claimed order, and each reaches the caller as SplitFailed carrying
\* the check's message
C3_RangeCauseInOrder ==
    [][(last'.op = "split" /\ fs[last'.src].kind = "pdf")
         => LET total == Len(fs[last'.src].pages)
                e == last'.exc
            IN  IF last'.start < 1 \/ last'.end < 1
                THEN KindOf(e) = "SplitFailed" /\ e.cause = "ValueError"
                        /\ e.text = "Page numbers must be >= 1."
                ELSE IF last'.start > last'.end
                THEN KindOf(e) = "SplitFailed" /\ e.cause = "ValueError"
                        /\ e.text = "Start page cannot be greater than end page."
                ELSE IF last'.end > total
                THEN KindOf(e) = "SplitFailed" /\ e.cause = "ValueError"
                        /\ e.text = "End page exceeds document page count."
                        /\ e.nums = <<last'.end, total>>
                ELSE e.cause # "ValueError"]_vars

-----------------------------------------------------------------------------
(* C4 .. C6                                                                *)

\* the pages of the documents named by files, one after another
RECURSIVE Concat(_, _)
Concat(fsys, files) ==
    IF files = <<>> THEN <<>>
    ELSE fsys[Head(files)].pages \o Concat(fsys, Tail(files))

\* C4: a merge that succeeds leaves at the output path a PDF whose pages are
\* the sources' pages as they were before the call, concatenated in the
\* order of the list, a path listed twice contributing twice; so its page
\* count is the sum of the sources' page counts.
C4_MergeConcatenates ==
    [][(last'.op = "merge" /\ last'.exc.type = "none")
         => /\ \A p \in Members(last'.files) : fs[p].kind = "pdf"
            /\ isdir(dirs, output_dir(last'.out))
            /\ fs'[last'.out] = Pdf(Concat(fs, last'.files))]_vars

\* A (pages 1, 2) then B (page 3) have been merged into O
C4_Witness ==
    /\ last.op = "merge" /\ last.exc.type = "none"
    /\ last.files = <<"A", "B">> /\ last.out = "O"
    /\ fs["O"] = Pdf(<<1, 2, 3>>)

\* C5: a split that succeeds had 1 <= start <= end <= N for its N-page
\* source and leaves at the output path a PDF of end - start + 1 pages, the
\* k-th being the source's page start + k - 1 (1-based).
C5_SplitExactRange ==
    [][(last'.op = "split" /\ last'.exc.type = "none")
         => LET src == fs[last'.src].pages
                s == last'.start
                e == last'.end
            IN  /\ fs[last'.src].kind = "pdf"
                /\ 1 <= s /\ s <= e /\ e <= Len(src)
                /\ fs'[last'.out].kind = "pdf"
                /\ Len(fs'[last'.out].pages) = e - s + 1
                /\ \A k \in 1..(e - s + 1) :
                       fs'[last'.out].pages[k] = src[s + k - 1]]_vars

\* pages 1..1 of the two-page document A have been extracted into O
C5_Witness ==
    /\ last.op = "split" /\ last.exc.type = "none"
    /\ last.src = "A" /\ last.start = 1 /\ last.end = 1 /\ last.out = "O"
    /\ fs["A"] = Pdf(<<1, 2>>) /\ fs["O"] = Pdf(<<1>>)

\* C6 (as claimed): every call is atomic at the output path: on success a
\* complete document is at the output path and nothing else changed; on any
\* failure the file system is as it was before the call.
C6_AtomicOutput ==
    [][(last'.op # "none")
         => IF last'.exc.type = "none"
            THEN /\ fs'[last'.out].kind \in {"pdf", "docx"}
                 /\ fs'[last'.out].pages # <<>>
                 /\ \A p \in Paths \ {last'.out} : fs'[p] = fs[p]
            ELSE fs' = fs]_vars

\* what the code does for C6: a call that fails before the engine's save or
\* convert step leaves the file system as it was
C6_ValidationFailureWritesNothing ==
    [][(last'.op # "none" /\ last'.exc.type # "none"
          /\ \A i \in 1..Len(last'.io) :
                 last'.io[i].ev \notin {"save_err", "convert_err"})
         => fs' = fs]_vars

-----------------------------------------------------------------------------
(* C7 .. C10                                                               *)

\* the events that record a failure raised by the engine
EngineFailures == {"open_err", "insert_err", "save_err", "convert_err"}

\* the kind that wraps the engine's failures in each operation
FailedKind(op) ==
    CASE op = "merge" -> "MergeFailed"
      [] op = "split" -> "SplitFailed"
      [] op = "convert" -> "ConvertFailed"
      [] OTHER -> "Native"

Taxonomy ==
    {"EmptyInput", "FileNotFound", "DirectoryNotFound", "InvalidRange",
     "RangeExceedsDocument", "MergeFailed", "SplitFailed", "ConvertFailed"}

C8_MissingDirIsDirectoryNotFound ==
    [][(/\ last'.op # "none"
        /\ ~isdir(dirs, output_dir(last'.out))
        /\ last'.op = "merge" => /\ last'.files # <<>>
                                 /\ \A p \in Members(last'.files) :
                                        fs[p].kind = "pdf"
        /\ last'.op \in {"split", "convert"} => fs[last'.src].kind = "pdf")
         => /\ KindOf(last'.exc) = "DirectoryNotFound"
            /\ dirs' = dirs
            /\ fs' = fs]_vars

\* C9 (as claimed): when a call has returned, every handle it opened is
\* closed, so the process holds no open handle after any sequence of calls.
C9_NoOpenHandles ==
    /\ handles = 0
    /\ Called(last) => OpenCount(last.io) = 0

\* what the code does for C9: merge_pdfs and split_pdf close every handle
\* they open, on every exit path
C9_MergeSplitReleaseHandles ==
    last.op \in {"merge", "split"} => OpenCount(last.io) = 0

\* the second of two merge_pdfs calls with the arguments of the call that
\* has just returned, the engine not failing
MergeAgain == merge_pdfs(fs, dirs, last.files, last.out, "ok")

-----------------------------------------------------------------------------
(* C11, C12                                                                *)

\* C11: when split_pdf has extracted pages 1..N of an N-page document
\* (N >= 1) into a file, merging that file alone, into any path of an
\* existing directory and the engine not failing, succeeds and leaves a
\* document of exactly the N pages of the original, in the original order.
C11_ExtractAllThenMerge ==
    [][(/\ last'.op = "split" /\ last'.exc.type = "none"
        /\ last'.start = 1 /\ last'.end = Len(fs[last'.src].pages))
         => \A out \in {p \in Paths : isdir(dirs', output_dir(p))} :
               LET orig == fs[last'.src].pages
                   r == merge_pdfs(fs', dirs', <<last'.out>>, out, "ok")
               IN  /\ Len(orig) >= 1
                   /\ r.exc.type = "none"
                   /\ Len(r.fs[out].pages) = Len(orig)
                   /\ \A i \in 1..Len(orig) : r.fs[out].pages[i] = orig[i]]_vars

\* pages 1..2 of the two-page document A have been extracted into O
C11_Witness ==
    /\ last.op = "split" /\ last.exc.type = "none"
    /\ last.src = "A" /\ last.start = 1 /\ last.end = 2 /\ last.out = "O"
    /\ fs["A"] = Pdf(<<1, 2>>) /\ fs["O"] = Pdf(<<1, 2>>)

\* the places in io of the events named in evs
Places(io, evs) == {i \in 1..Len(io) : io[i].ev \in evs}

\* the checks of a request, and the work on documents
CheckEvents == {"exists", "isdir"}
WorkEvents == {"new", "open", "open_err", "insert", "insert_err"}

\* C12 (as claimed): in merge_pdfs every check (that each path exists, that
\* the output directory exists) is made before the output document is
\* opened and before any source document is opened or its pages inserted.
C12_ValidationPrecedesExecution ==
    last.op = "merge"
      => \A c \in Places(last.io, CheckEvents) :
            \A w \in Places(last.io, WorkEvents) : c < w

\* what the code does for C12: the empty-list check precedes everything,
\* and every check precedes the save of the output
C12_ChecksPrecedeSave ==
    last.op = "merge"
      => /\ last.files = <<>> => last.io = <<>>
         /\ \A c \in Places(last.io, CheckEvents) :
               \A w \in Places(last.io, {"save", "save_err"}) : c < w
         /\ \A i \in 1..Len(last.files) :
               (\E w \in Places(last.io, {"save", "save_err"}) : TRUE)
                 => \E c \in Places(last.io, {"exists"}) :
                       last.io[c].path = last.files[i]

-----------------------------------------------------------------------------
(* The merge page: MergePage and PDFListWidget of app/ui.py.               *)

\* PDFListWidget.add_pdf: the path is added with a thumbnail when the
\* document opens and has a page, not at all when it opens with no page,
\* and without a thumbnail when opening it raises
add_pdf(list, fsys, file_path) ==
    IF fsys[file_path].kind = "pdf"
    THEN IF Len(fsys[file_path].pages) > 0 THEN Append(list, file_path) ELSE list
    ELSE Append(list, file_path)

\* for path in files: self.pdf_list.add_pdf(path)
RECURSIVE add_files(_, _, _)
add_files(list, fsys, files) ==
    IF files = <<>> THEN list
    ELSE add_files(add_pdf(list, fsys, Head(files)), fsys, Tail(files))

\* PDFListWidget.dropEvent of external files: the urls whose name ends in
\* .pdf are added, in order
RECURSIVE drop_files(_, _, _)
drop_files(list, fsys, urls) ==
    IF urls = <<>> THEN list
    ELSE drop_files(IF Head(urls).pdf_name
                    THEN add_pdf(list, fsys, Head(urls).path) ELSE list,
                    fsys, Tail(urls))

\* MergePage.on_remove_selected: the items at the selected rows are taken out
RECURSIVE remove_selected(_, _, _)
remove_selected(list, selected, i) ==
    IF i > Len(list) THEN <<>>
    ELSE (IF i \in selected THEN <<>> ELSE <<list[i]>>)
             \o remove_selected(list, selected, i + 1)

\* an internal drag and drop: the item at row from is moved to row to
move_item(list, from, to) ==
    LET rest == remove_selected(list, {from}, 1)
    IN  SubSeq(rest, 1, to - 1) \o <<list[from]>> \o SubSeq(rest, to, Len(rest))

\* PDFListWidget.get_all_paths: the items' paths in row order, an item
\* without a path left out
get_all_paths(list) == SelectSeq(list, LAMBDA path : path # "")

\* a merge handler that empties the list whatever merge_pdfs did
list_after_merge_always_clear(list, exc) == <<>>

\* try: merge_pdfs(...); show_info_dialog; self.pdf_list.clear()
\* except Exception: show_error_dialog
list_after_merge(list, exc) == IF exc.type = "none" THEN <<>> ELSE list

\* MergePage.on_execute_merge, the save dialog answering output_path ("" when
\* it is cancelled): the list and the file system it leaves, the engine
\* call it made (or none) and the dialog it showed
on_execute_merge(list, fsys, ds, output_path, eng) ==
    LET paths == get_all_paths(list)
    IN  IF paths = <<>>
        THEN [pdf_list |-> list, fs |-> fsys, call |-> NoCall, io |-> <<>>,
              dialog |-> "error", out |-> ""]
        ELSE IF output_path = ""
        THEN [pdf_list |-> list, fs |-> fsys, call |-> NoCall, io |-> <<>>,
              dialog |-> "none", out |-> ""]
        ELSE LET r == merge_pdfs(fsys, ds, paths, output_path, eng)
             IN  [pdf_list |-> list_after_merge(list, r.exc), fs |-> r.fs,
                  call |-> Call("merge", paths, "", 0, 0, output_path, r),
                  io |-> r.io,
                  dialog |-> IF r.exc.type = "none" THEN "info" ELSE "error",
                  out |-> output_path]

\* the files a file dialog or a drop may deliver
Picks == FileSets
Urls ==
    UNION {[1..n -> [path : SrcPaths, pdf_name : BOOLEAN]] : n \in 1..MaxFiles}

\* the answers of the save dialog: a path, or "" when it is cancelled
SaveAnswers == OutPaths \cup {""}

\* the handlers run one at a time from the event loop
Idle == ui.action = "none" /\ last.op = "none"

Ui(action, dialog, out) == [action |-> action, dialog |-> dialog, out |-> out]

OnAddFiles ==
    /\ Idle
    /\ \E files \in Picks :
         /\ Len(add_files(pdf_list, fs, files)) <= MaxFiles
         /\ pdf_list' = add_files(pdf_list, fs, files)
         /\ ui' = Ui("add", "none", "")
         /\ UNCHANGED <<fs, dirs, handles, last>>

DropEvent ==
    /\ Idle
    /\ \E urls \in Urls :
         /\ Len(drop_files(pdf_list, fs, urls)) <= MaxFiles
         /\ pdf_list' = drop_files(pdf_list, fs, urls)
         /\ ui' = Ui("drop", "none", "")
         /\ UNCHANGED <<fs, dirs, handles, last>>

OnRemoveSelected ==
    /\ Idle
    /\ \E selected \in SUBSET (1..Len(pdf_list)) :
         /\ pdf_list' = remove_selected(pdf_list, selected, 1)
         /\ ui' = Ui("remove", "none", "")
         /\ UNCHANGED <<fs, dirs, handles, last>>

ClearAll ==
    /\ Idle
    /\ pdf_list' = <<>>
    /\ ui' = Ui("clear", "none", "")
    /\ UNCHANGED <<fs, dirs, handles, last>>

Reorder ==
    /\ Idle
    /\ \E from \in 1..Len(pdf_list), to \in 1..Len(pdf_list) :
         /\ pdf_list' = move_item(pdf_list, from, to)
         /\ ui' = Ui("reorder", "none", "")
         /\ UNCHANGED <<fs, dirs, handles, last>>

OnExecuteMerge ==
    /\ Idle
    /\ \E output_path \in SaveAnswers :
         \E eng \in Outcomes(on_execute_merge(pdf_list, fs, dirs, output_path,
                                              "ok").call.exc,
                             IF on_execute_merge(pdf_list, fs, dirs, output_path,
                                                 "ok").call.op = "none"
                             THEN {"ok"} ELSE EngineOutcomes) :
            LET h == on_execute_merge(pdf_list, fs, dirs, output_path, eng)
            IN  /\ Within(h)
                /\ pdf_list' = h.pdf_list
                /\ fs' = h.fs
                /\ handles' = handles + OpenCount(h.io)
                /\ last' = h.call
                /\ ui' = Ui("merge", h.dialog, h.out)
                /\ UNCHANGED dirs

\* the handler has returned to the event loop
ReturnToEventLoop ==
    /\ ui.action # "none"
    /\ ui' = NoUi
    /\ last' = NoCall
    /\ UNCHANGED <<fs, dirs, handles, pdf_list>>

NextUI ==
    \/ OnAddFiles \/ DropEvent \/ OnRemoveSelected \/ ClearAll \/ Reorder
    \/ OnExecuteMerge \/ ReturnToEventLoop

SpecUI == Init /\ [][NextUI]_vars

-----------------------------------------------------------------------------
(* C13                                                                     *)

\* C13: on the merge page a 'Merge to PDF' action empties the file list
\* only when merge_pdfs returned successfully; when the list was empty, the
\* save dialog was cancelled or merge_pdfs raised, the list holds the same
\* paths in the same order as before, and in the first two cases the engine
\* is not called at all (no call, no I/O, the file system as it was).
C13_ListClearedOnlyOnSuccess ==
    [][(ui'.action = "merge")
         => /\ (last'.op = "merge" /\ last'.exc.type = "none")
                 => pdf_list' = <<>>
            /\ ~(last'.op = "merge" /\ last'.exc.type = "none")
                 => pdf_list' = pdf_list
            /\ (pdf_list = <<>> \/ ui'.out = "")
                 => /\ last' = NoCall
                    /\ fs' = fs
                    /\ handles' = handles
            /\ (pdf_list # <<>> /\ ui'.out # "")
                 => /\ last'.op = "merge"
                    /\ last'.files = pdf_list
                    /\ last'.out = ui'.out]_vars

\* merge_pdfs has raised for the list B, A (reordered from A, B) and the
\* list is still B, A
C13_Witness ==
    /\ ui.action = "merge" /\ ui.dialog = "error"
    /\ last.op = "merge" /\ last.exc.type = "RuntimeError"
    /\ last.files = <<"B", "A">>
    /\ pdf_list = <<"B", "A">>

====
